---- MODULE Spec2Model ----
(***************************************************************************)
(* Model of kws_streaming/models/crnn.py: the registration of the CRNN     *)
(* hyperparameters (model_parameters) and the assembly of the layer graph  *)
(* (model).  A behaviour registers the eleven options one add_argument     *)
(* call at a time, lets the argument parser produce a flags record from    *)
(* the defaults and a bounded command line, and then runs model(flags)     *)
(* one statement at a time, tracking the layers applied and the static     *)
(* shape of the tensor `net`.                                              *)
(*                                                                         *)
(* Hyperparameter strings are sequences of lexical tokens; tensors are     *)
(* represented by their static shapes; the dropout rate is held in         *)
(* thousandths (0.1 is 100).                                               *)
(***************************************************************************)
EXTENDS Integers, Sequences, FiniteSets, TLC

VARIABLES pc, parser, flags, input_audio, net, layers, zipped, idx, error, result

vars == <<pc, parser, flags, input_audio, net, layers, zipped, idx, error, result>>

(* ---------------------------------------------------------------------- *)
(* Bounds of the explored inputs                                           *)
(* ---------------------------------------------------------------------- *)

\* options given on the command line (all others keep their defaults)
MaxOverrides == 3
\* flags.batch_size ranges over 1..MaxBatch
MaxBatch == 2
\* flags.label_count ranges over 1..MaxLabels
MaxLabels == 2

(* ---------------------------------------------------------------------- *)
(* Hyperparameter strings as token sequences                               *)
(* ---------------------------------------------------------------------- *)

Num(n) == [k |-> "num", n |-> n, s |-> ""]
Str(s) == [k |-> "str", n |-> 0, s |-> s]
Comma == [k |-> "comma", n |-> 0, s |-> ""]
LP == [k |-> "lp", n |-> 0, s |-> ""]
RP == [k |-> "rp", n |-> 0, s |-> ""]

RECURSIVE Join(_)
Join(parts) ==
  IF Len(parts) = 0 THEN <<>>
  ELSE IF Len(parts) = 1 THEN parts[1]
  ELSE parts[1] \o <<Comma>> \o Join(Tail(parts))

\* '64,64'
Ints(ns) == Join([i \in 1..Len(ns) |-> <<Num(ns[i])>>])
\* '(3,3),(5,3)'
Pairs(ps) == Join([i \in 1..Len(ps) |-> <<LP, Num(ps[i][1]), Comma, Num(ps[i][2]), RP>>])
\* "'relu','selu'"
Strs(ss) == Join([i \in 1..Len(ss) |-> <<Str(ss[i])>>])

(* ---------------------------------------------------------------------- *)
(* parse: a hyperparameter string to the list of its entries               *)
(* ---------------------------------------------------------------------- *)

IntItem(n) == [k |-> "int", a |-> n, b |-> 0, s |-> ""]
TupItem(a, b) == [k |-> "tup", a |-> a, b |-> b, s |-> ""]
StrItem(s) == [k |-> "str", a |-> 0, b |-> 0, s |-> s]

ParseFailed == [ok |-> FALSE, items |-> <<>>]

\* the entry starting at token i of t, and the position after it
EntryAt(t, i) ==
  LET tok == t[i] IN
  IF tok.k = "num" THEN [ok |-> TRUE, item |-> IntItem(tok.n), next |-> i + 1]
  ELSE IF tok.k = "str" THEN [ok |-> TRUE, item |-> StrItem(tok.s), next |-> i + 1]
  ELSE IF /\ tok.k = "lp"
          /\ i + 4 <= Len(t)
          /\ t[i + 1].k = "num"
          /\ t[i + 2].k = "comma"
          /\ t[i + 3].k = "num"
          /\ t[i + 4].k = "rp"
       THEN [ok |-> TRUE, item |-> TupItem(t[i + 1].n, t[i + 3].n), next |-> i + 5]
  ELSE [ok |-> FALSE, item |-> IntItem(0), next |-> i]

RECURSIVE ParseFrom(_, _)
ParseFrom(t, i) ==
  IF i > Len(t) THEN [ok |-> TRUE, items |-> <<>>]
  ELSE LET e == EntryAt(t, i) IN
       IF ~e.ok THEN ParseFailed
       ELSE IF e.next > Len(t) THEN [ok |-> TRUE, items |-> <<e.item>>]
       ELSE IF t[e.next].k # "comma" THEN ParseFailed
       ELSE LET rest == ParseFrom(t, e.next + 1) IN
            IF rest.ok THEN [ok |-> TRUE, items |-> <<e.item>> \o rest.items]
            ELSE ParseFailed

\* The empty string is the empty list; any other string is the list of its
\* comma-separated entries; a string that is no such list raises.  Strings
\* holding one parenthesised pair alone are not among the explored inputs.
parse(text) ==
  IF Len(text) = 0 THEN [ok |-> TRUE, items |-> <<>>]
  ELSE ParseFrom(text, 1)

(* ---------------------------------------------------------------------- *)
(* model_parameters: the options and their defaults                        *)
(* ---------------------------------------------------------------------- *)

Option(name, type, default) == [name |-> name, type |-> type, default |-> default]

\* the default= strings of the add_argument calls
DefaultCnnFilters == Ints(<<64, 64, 64, 64, 64, 64, 128>>)
DefaultCnnKernelSize ==
  Pairs(<< <<3, 3>>, <<5, 3>>, <<5, 3>>, <<5, 3>>, <<5, 2>>, <<5, 1>>, <<5, 1>> >>)
DefaultCnnAct == Strs(<<"relu", "selu", "selu", "selu", "selu", "selu", "selu">>)
DefaultCnnDilationRate ==
  Pairs(<< <<1, 1>>, <<1, 1>>, <<2, 1>>, <<1, 1>>, <<2, 1>>, <<1, 1>>, <<2, 1>> >>)
\* a faulty default: one entry short of the other convolution lists
CnnStridesSixEntries ==
  Pairs(<< <<1, 1>>, <<1, 1>>, <<1, 1>>, <<1, 1>>, <<1, 1>>, <<1, 1>> >>)
DefaultCnnStrides ==
  Pairs(<< <<1, 1>>, <<1, 1>>, <<1, 1>>, <<1, 1>>, <<1, 1>>, <<1, 1>>, <<1, 1>> >>)
DefaultGruUnits == Ints(<<512>>)
DefaultReturnSequences == Ints(<<1>>)
DefaultStateful == Ints(<<0>>)
\* 0.1, in thousandths
DefaultDropout1 == Ints(<<100>>)
DefaultUnits1 == <<>>
DefaultAct1 == <<>>

\* the add_argument calls of model_parameters, in source order
ModelParameters ==
  << Option("cnn_filters", "str", DefaultCnnFilters),
     Option("cnn_kernel_size", "str", DefaultCnnKernelSize),
     Option("cnn_act", "str", DefaultCnnAct),
     Option("cnn_dilation_rate", "str", DefaultCnnDilationRate),
     Option("cnn_strides", "str", DefaultCnnStrides),
     Option("gru_units", "str", DefaultGruUnits),
     Option("return_sequences", "str", DefaultReturnSequences),
     Option("stateful", "int", DefaultStateful),
     Option("dropout1", "float", DefaultDropout1),
     Option("units1", "str", DefaultUnits1),
     Option("act1", "str", DefaultAct1) >>

\* one add_argument call: the next option is added to the parser
AddArgument ==
  /\ pc = "model_parameters"
  /\ Len(parser) < Len(ModelParameters)
  /\ parser' = Append(parser, ModelParameters[Len(parser) + 1])
  /\ UNCHANGED <<pc, flags, input_audio, net, layers, zipped, idx, error, result>>

(* ---------------------------------------------------------------------- *)
(* The flags record handed to model                                        *)
(* ---------------------------------------------------------------------- *)

\* the data flags model reads that model_parameters does not register
DataParameters ==
  << Option("desired_samples", "int", Ints(<<16000>>)),
     Option("sample_rate", "int", Ints(<<16000>>)),
     Option("window_size_ms", "int", Ints(<<40>>)),
     Option("window_stride_ms", "int", Ints(<<20>>)),
     Option("dct_num_features", "int", Ints(<<20>>)) >>

\* the values a command line may give an option in the explored runs
Alternatives(name) ==
  CASE name = "cnn_filters" -> {Ints(<<32, 16>>), <<>>, <<Num(64), Comma, LP>>}
    [] name = "cnn_kernel_size" -> {Pairs(<< <<3, 3>>, <<3, 30>> >>), Ints(<<3, 2>>)}
    [] name = "cnn_act" -> {Strs(<<"relu", "relu", "relu">>), Ints(<<7>>)}
    [] name = "cnn_dilation_rate" -> {Pairs(<< <<1, 1>>, <<2, 1>> >>)}
    [] name = "cnn_strides" -> {Pairs(<< <<2, 1>>, <<1, 1>>, <<1, 2>> >>)}
    [] name = "gru_units" -> {Ints(<<256, 128>>), <<>>}
    [] name = "return_sequences" -> {Ints(<<0>>), Ints(<<0, 1>>), Ints(<<1, 1>>)}
    [] name = "stateful" -> {Ints(<<1>>)}
    [] name = "dropout1" -> {Ints(<<500>>)}
    [] name = "units1" -> {Ints(<<128>>), Ints(<<128, 64>>)}
    [] name = "act1" -> {Strs(<<"relu">>), Strs(<<"relu", "linear">>)}
    [] name = "desired_samples" -> {Ints(<<8000>>)}
    [] name = "dct_num_features" -> {Ints(<<10>>)}
    [] OTHER -> {}

Names(options) == {options[i].name : i \in 1..Len(options)}

OptionOf(options, name) ==
  options[CHOOSE i \in 1..Len(options) : options[i].name = name]

\* the command lines giving each option of S one of its alternatives
RECURSIVE Giving(_)
Giving(S) ==
  IF S = {} THEN {<<>>}
  ELSE LET n == CHOOSE m \in S : TRUE IN
       {(n :> v) @@ cl : v \in Alternatives(n), cl \in Giving(S \ {n})}

\* the command lines of the explored runs: at most MaxOverrides options given
CommandLines(options) ==
  UNION { Giving(S) :
          S \in {T \in SUBSET Names(options) : Cardinality(T) <= MaxOverrides} }

\* the type conversion the parser applies to an option's string
Coerce(type, text) == IF type = "str" THEN text ELSE text[1].n

\* the record of option values: the given string, or else the default
ParsedArgs(options, cl) ==
  [n \in Names(options) |->
     LET o == OptionOf(options, n) IN
     Coerce(o.type, IF n \in DOMAIN cl THEN cl[n] ELSE o.default)]

\* The training harness parses the command line and calls model(flags).
ParseArgs ==
  /\ pc = "model_parameters"
  /\ Len(parser) = Len(ModelParameters)
  /\ \E cl \in CommandLines(parser \o DataParameters) :
       \E bs \in 1..MaxBatch : \E lc \in 1..MaxLabels :
         flags' = ParsedArgs(parser \o DataParameters, cl)
                    @@ [batch_size |-> bs, label_count |-> lc]
  /\ pc' = "input"
  /\ UNCHANGED <<parser, input_audio, net, layers, zipped, idx, error, result>>

(* ---------------------------------------------------------------------- *)
(* Layers: parameters and static shapes                                    *)
(* ---------------------------------------------------------------------- *)

NoActivation == ""

NoParams ==
  [units |-> 0, kernel_size |-> <<0, 0>>, dilation_rate |-> <<0, 0>>,
   strides |-> <<0, 0>>, activation |-> NoActivation,
   return_sequences |-> [k |-> "int", a |-> 0, b |-> 0, s |-> ""],
   stateful |-> 0, rate |-> 0, target_shape |-> <<>>]

\* a layer of the graph: the statement that applied it, its type and
\* parameters, and the shapes of its input and output tensors
Layer(stage, op, params, inp, out) ==
  [stage |-> stage, op |-> op, params |-> params, inp |-> inp, out |-> out]

RECURSIVE Product(_)
Product(shape) == IF Len(shape) = 0 THEN 1 ELSE shape[1] * Product(Tail(shape))

IsInt(item) == item.k = "int" /\ item.a >= 1
IsSize(item) == item.k \in {"int", "tup"}
IsName(item) == item.k = "str"
\* an int n given where a pair is expected stands for (n, n)
AsPair(item) == IF item.k = "int" THEN <<item.a, item.a>> ELSE <<item.a, item.b>>

\* SpeechFeatures: [batch, samples] to [batch, frames, features]
FrameSize(f) == (f.sample_rate * f.window_size_ms) \div 1000
FrameStep(f) == (f.sample_rate * f.window_stride_ms) \div 1000
SpeechFeaturesShape(inp, f) ==
  <<inp[1], 1 + (inp[2] - FrameSize(f)) \div FrameStep(f), f.dct_num_features>>

\* Conv2D with padding 'valid': the output length of one axis
ConvLength(n, k, d, s) == (n - ((k - 1) * d + 1)) \div s + 1

Conv2DFits(inp, kernel, dilation, strides) ==
  /\ Len(inp) = 4
  /\ \A j \in 1..2 : kernel[j] >= 1 /\ dilation[j] >= 1 /\ strides[j] >= 1
  /\ \A j \in 1..2 : inp[j + 1] >= (kernel[j] - 1) * dilation[j] + 1
  \* strides > 1 is not supported together with dilation_rate > 1
  /\ (\A j \in 1..2 : strides[j] = 1) \/ (\A j \in 1..2 : dilation[j] = 1)

Conv2DShape(inp, filters, kernel, dilation, strides) ==
  <<inp[1],
    ConvLength(inp[2], kernel[1], dilation[1], strides[1]),
    ConvLength(inp[3], kernel[2], dilation[2], strides[2]),
    filters>>

\* Reshape(target): the batch axis is kept and a -1 entry is inferred
ReshapeFits(inp, target) ==
  /\ target[2] >= 1
  /\ Product(Tail(inp)) % target[2] = 0

ReshapeShape(inp, target) ==
  <<inp[1], Product(Tail(inp)) \div target[2], target[2]>>

\* the truth value Python gives a parsed entry
Truthy(item) == item.k # "int" \/ item.a # 0

\* GRU over [batch, time, feature]
GRUShape(inp, units, return_sequences) ==
  IF Truthy(return_sequences) THEN <<inp[1], inp[2], units>> ELSE <<inp[1], units>>

\* Flatten: every axis but the batch axis is collapsed into one
FlattenShape(inp) == <<inp[1], Product(Tail(inp))>>

\* Dense: the last axis becomes units
DenseShape(inp, units) == SubSeq(inp, 1, Len(inp) - 1) \o <<units>>

(* ---------------------------------------------------------------------- *)
(* model(flags), one statement at a time                                   *)
(* ---------------------------------------------------------------------- *)

NoModel == [built |-> FALSE, inputs |-> <<>>, outputs |-> <<>>, layers |-> <<>>]

\* a faulty variant: the exception is caught and whatever was assembled so
\* far is returned
RaiseSwallowed(kind) ==
  /\ pc' = "return"
  /\ error' = kind
  /\ UNCHANGED <<parser, flags, input_audio, net, layers, zipped, idx, result>>

\* An exception raised inside model: nothing catches it, so the call ends
\* there and nothing is returned.
Raise(kind) ==
  /\ pc' = "failed"
  /\ error' = kind
  /\ UNCHANGED <<parser, flags, input_audio, net, layers, zipped, idx, result>>

Min(S) == CHOOSE x \in S : \A y \in S : x <= y

\* a faulty variant: lists of different lengths yield no tuple at all
ZipStrict(lists) ==
  IF Cardinality({Len(lists[j]) : j \in 1..Len(lists)}) = 1
  THEN [i \in 1..Len(lists[1]) |-> [j \in 1..Len(lists) |-> lists[j][i]]]
  ELSE <<>>

\* a faulty variant: the last tuple is lost
ZipShort(lists) ==
  LET n == Min({Len(lists[j]) : j \in 1..Len(lists)}) IN
  [i \in 1..(IF n = 0 THEN 0 ELSE n - 1) |-> [j \in 1..Len(lists) |-> lists[j][i]]]

\* a faulty variant: every list but the first is read from its far end
ZipMisaligned(lists) ==
  LET n == Min({Len(lists[j]) : j \in 1..Len(lists)}) IN
  [i \in 1..n |->
     [j \in 1..Len(lists) |-> IF j = 1 THEN lists[j][i] ELSE lists[j][n + 1 - i]]]

\* zip: tuples of the i-th elements, as many as the shortest list has
Zip(lists) ==
  [i \in 1..Min({Len(lists[j]) : j \in 1..Len(lists)}) |->
     [j \in 1..Len(lists) |-> lists[j][i]]]

\* the parse calls of one zip, in argument order
Parsed(texts) == [j \in 1..Len(texts) |-> parse(texts[j])]
AllParsed(ps) == \A j \in 1..Len(ps) : ps[j].ok
Items(ps) == [j \in 1..Len(ps) |-> ps[j].items]

InputShape == <<flags.batch_size, flags.desired_samples>>

Input ==
  /\ pc = "input"
  /\ input_audio' = InputShape
  /\ pc' = "speech_features"
  /\ UNCHANGED <<parser, flags, net, layers, zipped, idx, error, result>>

SpeechFeatures ==
  /\ pc = "speech_features"
  /\ IF input_audio[2] < FrameSize(flags)
     THEN Raise("shape")
     ELSE /\ net' = SpeechFeaturesShape(input_audio, flags)
          /\ layers' = Append(layers, Layer("speech_features", "SpeechFeatures",
                                            NoParams, input_audio, net'))
          /\ pc' = "expand_dims"
          /\ UNCHANGED <<parser, flags, input_audio, zipped, idx, error, result>>

ExpandDims ==
  /\ pc = "expand_dims"
  /\ net' = net \o <<1>>
  /\ layers' = Append(layers, Layer("expand_dims", "expand_dims", NoParams, net, net'))
  /\ pc' = "conv_zip"
  /\ UNCHANGED <<parser, flags, input_audio, zipped, idx, error, result>>

ConvTexts ==
  <<flags.cnn_filters, flags.cnn_kernel_size, flags.cnn_act,
    flags.cnn_dilation_rate, flags.cnn_strides>>

ConvZip ==
  /\ pc = "conv_zip"
  /\ LET ps == Parsed(ConvTexts) IN
     IF ~AllParsed(ps)
     THEN Raise("parse")
     ELSE /\ zipped' = Zip(Items(ps))
          /\ idx' = 1
          /\ pc' = "conv"
          /\ UNCHANGED <<parser, flags, input_audio, net, layers, error, result>>

ConvLayer ==
  /\ pc = "conv"
  /\ idx <= Len(zipped)
  /\ LET filters == zipped[idx][1]
         kernel_size == zipped[idx][2]
         activation == zipped[idx][3]
         dilation_rate == zipped[idx][4]
         strides == zipped[idx][5]
     IN
     IF ~(IsInt(filters) /\ IsSize(kernel_size) /\ IsName(activation)
          /\ IsSize(dilation_rate) /\ IsSize(strides))
     THEN Raise("value")
     ELSE IF ~Conv2DFits(net, AsPair(kernel_size), AsPair(dilation_rate), AsPair(strides))
     THEN Raise("shape")
     ELSE /\ net' = Conv2DShape(net, filters.a, AsPair(kernel_size),
                                AsPair(dilation_rate), AsPair(strides))
          /\ layers' = Append(layers,
               Layer("conv", "Conv2D",
                     [NoParams EXCEPT !.units = filters.a,
                                      !.kernel_size = AsPair(kernel_size),
                                      !.activation = activation.s,
                                      !.dilation_rate = AsPair(dilation_rate),
                                      !.strides = AsPair(strides)],
                     net, net'))
          /\ idx' = idx + 1
          /\ UNCHANGED <<pc, parser, flags, input_audio, zipped, error, result>>

\* a faulty variant: the time axis is taken for the feature axis
ReshapeTargetTimeAxis(shape) == <<-1, shape[2] * shape[4]>>

\* (-1, shape[2] * shape[3]) of the source, whose axes count from 0
ReshapeTarget(shape) == <<-1, shape[3] * shape[4]>>

Reshape ==
  /\ pc = "conv"
  /\ idx > Len(zipped)
  /\ LET target == ReshapeTarget(net) IN
     IF ~ReshapeFits(net, target)
     THEN Raise("shape")
     ELSE /\ net' = ReshapeShape(net, target)
          /\ layers' = Append(layers,
               Layer("reshape", "Reshape", [NoParams EXCEPT !.target_shape = target],
                     net, net'))
          /\ pc' = "gru_zip"
          /\ UNCHANGED <<parser, flags, input_audio, zipped, idx, error, result>>

GruTexts == <<flags.gru_units, flags.return_sequences>>

GruZip ==
  /\ pc = "gru_zip"
  /\ LET ps == Parsed(GruTexts) IN
     IF ~AllParsed(ps)
     THEN Raise("parse")
     ELSE /\ zipped' = Zip(Items(ps))
          /\ idx' = 1
          /\ pc' = "gru"
          /\ UNCHANGED <<parser, flags, input_audio, net, layers, error, result>>

GruStateful == flags.stateful

GruLayer ==
  /\ pc = "gru"
  /\ idx <= Len(zipped)
  /\ LET units == zipped[idx][1]
         return_sequences == zipped[idx][2]
     IN
     IF ~IsInt(units)
     THEN Raise("value")
     ELSE IF Len(net) # 3
     THEN Raise("shape")
     ELSE /\ net' = GRUShape(net, units.a, return_sequences)
          /\ layers' = Append(layers,
               Layer("gru", "GRU",
                     [NoParams EXCEPT !.units = units.a,
                                      !.return_sequences = return_sequences,
                                      !.stateful = GruStateful],
                     net, net'))
          /\ idx' = idx + 1
          /\ UNCHANGED <<pc, parser, flags, input_audio, zipped, error, result>>

\* a faulty variant: the Flatten statement is left out
FlattenOmitted ==
  /\ pc = "gru"
  /\ idx > Len(zipped)
  /\ pc' = "dropout"
  /\ UNCHANGED <<parser, flags, input_audio, net, layers, zipped, idx, error, result>>

Flatten ==
  /\ pc = "gru"
  /\ idx > Len(zipped)
  /\ net' = FlattenShape(net)
  /\ layers' = Append(layers, Layer("flatten", "Flatten", NoParams, net, net'))
  /\ pc' = "dropout"
  /\ UNCHANGED <<parser, flags, input_audio, zipped, idx, error, result>>

\* a faulty variant: the registered default is used, not the flag's value
DropoutRateDefault == Coerce("float", DefaultDropout1)

DropoutRate == flags.dropout1

\* a faulty variant: Dropout is applied before Flatten instead of after it
DropoutBeforeFlatten ==
  \/ /\ pc = "gru"
     /\ idx > Len(zipped)
     /\ \A i \in 1..Len(layers) : layers[i].stage # "dropout"
     /\ net' = net
     /\ layers' = Append(layers,
          Layer("dropout", "Dropout", [NoParams EXCEPT !.rate = flags.dropout1], net, net'))
     /\ UNCHANGED <<pc, parser, flags, input_audio, zipped, idx, error, result>>
  \/ /\ pc = "dropout"
     /\ pc' = "dense_zip"
     /\ UNCHANGED <<parser, flags, input_audio, net, layers, zipped, idx, error, result>>

Dropout ==
  /\ pc = "dropout"
  /\ net' = net
  /\ layers' = Append(layers,
       Layer("dropout", "Dropout", [NoParams EXCEPT !.rate = DropoutRate], net, net'))
  /\ pc' = "dense_zip"
  /\ UNCHANGED <<parser, flags, input_audio, zipped, idx, error, result>>

DenseTexts == <<flags.units1, flags.act1>>

DenseZip ==
  /\ pc = "dense_zip"
  /\ LET ps == Parsed(DenseTexts) IN
     IF ~AllParsed(ps)
     THEN Raise("parse")
     ELSE /\ zipped' = Zip(Items(ps))
          /\ idx' = 1
          /\ pc' = "dense"
          /\ UNCHANGED <<parser, flags, input_audio, net, layers, error, result>>

DenseLayer ==
  /\ pc = "dense"
  /\ idx <= Len(zipped)
  /\ LET units == zipped[idx][1]
         activation == zipped[idx][2]
     IN
     IF ~(IsInt(units) /\ IsName(activation))
     THEN Raise("value")
     ELSE /\ net' = DenseShape(net, units.a)
          /\ layers' = Append(layers,
               Layer("dense", "Dense",
                     [NoParams EXCEPT !.units = units.a, !.activation = activation.s],
                     net, net'))
          /\ idx' = idx + 1
          /\ UNCHANGED <<pc, parser, flags, input_audio, zipped, error, result>>

\* a faulty variant: the batch size is taken for the number of labels
FinalUnitsFromBatch == flags.batch_size

FinalUnits == flags.label_count

FinalDense ==
  /\ pc = "dense"
  /\ idx > Len(zipped)
  /\ net' = DenseShape(net, FinalUnits)
  /\ layers' = Append(layers,
       Layer("logits", "Dense", [NoParams EXCEPT !.units = FinalUnits], net, net'))
  /\ pc' = "return"
  /\ UNCHANGED <<parser, flags, input_audio, zipped, idx, error, result>>

Return ==
  /\ pc = "return"
  /\ result' = [built |-> TRUE, inputs |-> input_audio, outputs |-> net, layers |-> layers]
  /\ pc' = "done"
  /\ UNCHANGED <<parser, flags, input_audio, net, layers, zipped, idx, error>>

(* ---------------------------------------------------------------------- *)
(* Specification                                                           *)
(* ---------------------------------------------------------------------- *)

Init ==
  /\ pc = "model_parameters"
  /\ parser = <<>>
  /\ flags = <<>>
  /\ input_audio = <<>>
  /\ net = <<>>
  /\ layers = <<>>
  /\ zipped = <<>>
  /\ idx = 0
  /\ error = "none"
  /\ result = NoModel

Next ==
  \/ AddArgument
  \/ ParseArgs
  \/ Input
  \/ SpeechFeatures
  \/ ExpandDims
  \/ ConvZip
  \/ ConvLayer
  \/ Reshape
  \/ GruZip
  \/ GruLayer
  \/ Flatten
  \/ Dropout
  \/ DenseZip
  \/ DenseLayer
  \/ FinalDense
  \/ Return

Spec == Init /\ [][Next]_vars

(* ---------------------------------------------------------------------- *)
(* Vocabulary of the properties                                            *)
(* ---------------------------------------------------------------------- *)

\* model(flags) has been called: flags holds the hyperparameter record
Called == pc # "model_parameters"
\* model(flags) has returned a model
Built == result.built

StageLayers(stage) == SelectSeq(layers, LAMBDA l : l.stage = stage)
OpLayers(op) == SelectSeq(layers, LAMBDA l : l.op = op)
Last(seq) == seq[Len(seq)]

ParsedLengths(texts) == [j \in 1..Len(texts) |-> Len(parse(texts[j]).items)]
MinOf(ns) == Min({ns[j] : j \in 1..Len(ns)})
AllEqual(ns) == \A i, j \in 1..Len(ns) : ns[i] = ns[j]
AllAre(ns, n) == \A j \in 1..Len(ns) : ns[j] = n

NumConv == Len(StageLayers("conv"))
NumGru == Len(StageLayers("gru"))
NumDense == Len(StageLayers("dense"))

\* every option model_parameters registers has its default value
DefaultOptions ==
  \A i \in 1..Len(ModelParameters) :
    flags[ModelParameters[i].name]
      = Coerce(ModelParameters[i].type, ModelParameters[i].default)

LastGruReturnsSequences ==
  /\ NumGru >= 1
  /\ Truthy(Last(StageLayers("gru")).params.return_sequences)

OpRank(op) ==
  CASE op = "SpeechFeatures" -> 1
    [] op = "expand_dims" -> 2
    [] op = "Conv2D" -> 3
    [] op = "Reshape" -> 4
    [] op = "GRU" -> 5
    [] op = "Flatten" -> 6
    [] op = "Dropout" -> 7
    [] op = "Dense" -> 8

SingleOps == {"SpeechFeatures", "expand_dims", "Reshape", "Flatten", "Dropout"}

(* ---------------------------------------------------------------------- *)
(* Properties                                                              *)
(* ---------------------------------------------------------------------- *)

\* C1: the layers are applied in the order SpeechFeatures, expand_dims, the
\* Conv2D layers, Reshape, the GRU layers, Flatten, Dropout, the hidden Dense
\* layers, the final Dense: no layer of a later stage precedes a layer of an
\* earlier one, each single layer occurs at most once while the graph is
\* built, and a returned model holds each single layer exactly once and ends
\* with a Dense layer.
C1_LayerOrder ==
  /\ \A i, j \in 1..Len(layers) :
       i < j =>
         /\ OpRank(layers[i].op) <= OpRank(layers[j].op)
         /\ OpRank(layers[i].op) = OpRank(layers[j].op) => layers[i].op \notin SingleOps
  /\ Built =>
       /\ result.layers = layers
       /\ \A op \in SingleOps : Len(OpLayers(op)) = 1
       /\ Len(OpLayers("Dense")) = NumDense + 1
       /\ Last(layers).op = "Dense"

\* C1 witness: a model is returned that holds Conv2D, GRU and hidden Dense layers.
C1_Witness == Built /\ NumConv >= 1 /\ NumGru >= 1 /\ NumDense >= 1

\* C2: lists of different lengths do not make construction fail at a zip: each
\* loop runs over as many tuples as its shortest parsed list has, a parse
\* error is raised only for a string that does not parse, and a returned
\* model holds min-of-lengths Conv2D, GRU and hidden Dense layers.
C2_ZipTruncates ==
  /\ pc = "conv" => Len(zipped) = MinOf(ParsedLengths(ConvTexts))
  /\ pc = "gru" => Len(zipped) = MinOf(ParsedLengths(GruTexts))
  /\ pc = "dense" => Len(zipped) = MinOf(ParsedLengths(DenseTexts))
  /\ error = "parse" =>
       \E j \in 1..9 : ~parse((ConvTexts \o GruTexts \o DenseTexts)[j]).ok
  /\ Built =>
       /\ NumConv = MinOf(ParsedLengths(ConvTexts))
       /\ NumGru = MinOf(ParsedLengths(GruTexts))
       /\ NumDense = MinOf(ParsedLengths(DenseTexts))

\* C2 witness: a model is returned although the lists of every zip differ in length.
C2_Witness ==
  /\ Built
  /\ ~AllEqual(ParsedLengths(ConvTexts))
  /\ ~AllEqual(ParsedLengths(GruTexts))
  /\ ~AllEqual(ParsedLengths(DenseTexts))

\* C3 as stated: whenever model(flags) returns a model, the parsed lists of
\* each zip have equal lengths.
C3_EqualLengthsWheneverBuilt ==
  Built =>
    /\ AllEqual(ParsedLengths(ConvTexts))
    /\ AllEqual(ParsedLengths(GruTexts))
    /\ AllEqual(ParsedLengths(DenseTexts))

\* C3 as amended: equal lengths are not enforced.  The registered defaults
\* have equal lengths in each zip; and in a returned model every entry of a
\* zip's lists is used by a layer (none is dropped) exactly when the parsed
\* lists of that zip have equal lengths.
C3_NoLayerDroppedIffEqualLengths ==
  /\ Called /\ DefaultOptions =>
       /\ AllEqual(ParsedLengths(ConvTexts))
       /\ AllEqual(ParsedLengths(GruTexts))
       /\ AllEqual(ParsedLengths(DenseTexts))
  /\ Built =>
       /\ AllAre(ParsedLengths(ConvTexts), NumConv) <=> AllEqual(ParsedLengths(ConvTexts))
       /\ AllAre(ParsedLengths(GruTexts), NumGru) <=> AllEqual(ParsedLengths(GruTexts))
       /\ AllAre(ParsedLengths(DenseTexts), NumDense) <=> AllEqual(ParsedLengths(DenseTexts))

\* C3 witness: a model is returned whose convolution lists differ in length,
\* with at least one Conv2D layer built.
C3_Witness == Built /\ ~AllEqual(ParsedLengths(ConvTexts)) /\ NumConv >= 1

\* C4: with the registered defaults, the returned model maps an input of
\* shape [batch_size, desired_samples] to logits of shape [batch_size, label_count].
C4_DefaultLogitsShape ==
  Built /\ DefaultOptions =>
    /\ result.inputs = <<flags.batch_size, flags.desired_samples>>
    /\ result.outputs = <<flags.batch_size, flags.label_count>>

\* C4 witness: a model is returned for the defaults with more than one
\* sample per batch and more than one label.
C4_Witness == Built /\ DefaultOptions /\ flags.batch_size > 1 /\ flags.label_count > 1

\* C5 as stated: the output keeps a time axis, [batch, time, label_count],
\* when the last GRU layer is built with return_sequences true, and is
\* [batch, label_count] otherwise.
C5_PerTimestepOutput ==
  Built =>
    IF LastGruReturnsSequences
    THEN /\ Len(result.outputs) = 3
         /\ result.outputs[1] = flags.batch_size
         /\ result.outputs[3] = flags.label_count
    ELSE result.outputs = <<flags.batch_size, flags.label_count>>

\* C5 as amended: the output is [batch, label_count] whatever return_sequences
\* is, because Flatten collapses the time axis.  return_sequences of the last
\* GRU layer decides only what Flatten receives: [batch, time, units], which
\* it turns into [batch, time * units], when true; [batch, units] when false.
C5_FlattenCollapsesTime ==
  Built =>
    /\ result.outputs = <<flags.batch_size, flags.label_count>>
    /\ Len(StageLayers("flatten")) = 1
    /\ LET f == StageLayers("flatten")[1] IN
       /\ LastGruReturnsSequences =>
            /\ Len(f.inp) = 3
            /\ f.inp[3] = Last(StageLayers("gru")).params.units
            /\ f.out = <<flags.batch_size, f.inp[2] * f.inp[3]>>
       /\ NumGru >= 1 /\ ~LastGruReturnsSequences =>
            /\ f.inp = <<flags.batch_size, Last(StageLayers("gru")).params.units>>
            /\ f.out = f.inp

\* C5 witness: a model is returned whose last GRU layer returns sequences of
\* more than one time step.
C5_Witness ==
  /\ Built
  /\ LastGruReturnsSequences
  /\ StageLayers("flatten")[1].inp[2] > 1

\* C6: model recovers from no failure: once an error is raised nothing
\* changes any more; the step that raises it ends the call without building
\* a layer or returning a model; and a model is returned only by a call that
\* raised nothing and applied every statement up to the final Dense layer.
C6_NoRecovery ==
  [][ /\ error # "none" => UNCHANGED <<layers, result, error, net>>
      /\ error' # "none" => pc' = "failed" /\ layers' = layers /\ result' = NoModel
      /\ result'.built =>
           /\ error' = "none"
           /\ pc' = "done"
           /\ result'.layers = layers
           /\ Len(layers) >= 1
           /\ Last(layers).stage = "logits" ]_vars

\* C6 witness: a shape error ended the call after at least one Conv2D layer
\* was built, and no model was returned.
C6_Witness == pc = "failed" /\ error = "shape" /\ NumConv >= 1 /\ ~Built

\* C7: Reshape takes the 4-axis output [batch, time, feature, channels] of the
\* last Conv2D layer, or of expand_dims when there is none (channels = 1), to
\* [batch, time, feature * channels]; channels is the filters value of the
\* last Conv2D layer; batch and time are unchanged.
C7_ReshapeCollapses ==
  \A r \in 1..Len(layers) :
    layers[r].op = "Reshape" =>
      /\ r >= 2
      /\ layers[r - 1].op \in {"Conv2D", "expand_dims"}
      /\ layers[r].inp = layers[r - 1].out
      /\ Len(layers[r].inp) = 4
      /\ layers[r].inp[4] =
           (IF layers[r - 1].op = "Conv2D" THEN layers[r - 1].params.units ELSE 1)
      /\ layers[r].out =
           <<layers[r].inp[1], layers[r].inp[2], layers[r].inp[3] * layers[r].inp[4]>>

\* C7 witness: a Reshape was applied to a tensor with several time steps,
\* features and channels, time and feature sizes being different.
C7_Witness ==
  \E r \in 1..Len(layers) :
    /\ layers[r].op = "Reshape"
    /\ layers[r].inp[2] > 1
    /\ layers[r].inp[3] > 1
    /\ layers[r].inp[4] > 1
    /\ layers[r].inp[2] # layers[r].inp[3]

ElevenOptions ==
  {"cnn_filters", "cnn_kernel_size", "cnn_act", "cnn_dilation_rate", "cnn_strides",
   "gru_units", "return_sequences", "stateful", "dropout1", "units1", "act1"}

\* C8: model_parameters registers exactly the eleven options, each once, with
\* a type and a default, and raises nothing whatever the lengths of the list
\* values; with the defaults model builds exactly 7 Conv2D layers, 1 GRU layer
\* of 512 units that returns sequences, and no hidden Dense layer.
C8_RegistrationAndDefaults ==
  /\ Cardinality(Names(parser)) = Len(parser)
  /\ Names(parser) \subseteq ElevenOptions
  /\ \A i \in 1..Len(parser) : parser[i].type \in {"str", "int", "float"}
  /\ Called => Names(parser) = ElevenOptions
  /\ pc \in {"model_parameters", "input"} => error = "none"
  /\ Built /\ DefaultOptions =>
       /\ NumConv = 7
       /\ NumGru = 1
       /\ StageLayers("gru")[1].params.units = 512
       /\ LastGruReturnsSequences
       /\ NumDense = 0

\* C8 witness: a model is returned for the defaults.
C8_Witness == Built /\ DefaultOptions /\ Len(parser) = 11

\* C9: parameters are paired by position: the i-th Conv2D layer has the i-th
\* entries of the five parsed convolution lists, the i-th GRU layer the i-th
\* entries of gru_units and return_sequences and the stateful flag unchanged,
\* the i-th hidden Dense layer the i-th entries of units1 and act1.
C9_PositionalPairing ==
  Called =>
    /\ \A built \in {StageLayers("conv")} :
         Len(built) >= 1 =>
           \A P \in {Items(Parsed(ConvTexts))} : \A i \in 1..Len(built) :
             /\ built[i].params.units = P[1][i].a
             /\ built[i].params.kernel_size = AsPair(P[2][i])
             /\ built[i].params.activation = P[3][i].s
             /\ built[i].params.dilation_rate = AsPair(P[4][i])
             /\ built[i].params.strides = AsPair(P[5][i])
    /\ \A built \in {StageLayers("gru")} :
         Len(built) >= 1 =>
           \A P \in {Items(Parsed(GruTexts))} : \A i \in 1..Len(built) :
             /\ built[i].params.units = P[1][i].a
             /\ built[i].params.return_sequences = P[2][i]
             /\ built[i].params.stateful = flags.stateful
    /\ \A built \in {StageLayers("dense")} :
         Len(built) >= 1 =>
           \A P \in {Items(Parsed(DenseTexts))} : \A i \in 1..Len(built) :
             /\ built[i].params.units = P[1][i].a
             /\ built[i].params.activation = P[2][i].s

\* C9 witness: a model is returned with several Conv2D layers, a GRU layer
\* built with stateful set, and a hidden Dense layer.
C9_Witness ==
  Built /\ NumConv >= 2 /\ NumGru >= 1 /\ NumDense >= 1 /\ flags.stateful = 1

\* C10: every returned model holds exactly one Reshape, one Flatten and one
\* Dropout of rate dropout1 and ends with a Dense layer of label_count units
\* without activation; the lists decide only how many Conv2D, GRU and hidden
\* Dense layers there are beside these six fixed layers.
C10_FixedLayers ==
  Built =>
    /\ Len(OpLayers("Reshape")) = 1
    /\ Len(OpLayers("Flatten")) = 1
    /\ Len(OpLayers("Dropout")) = 1
    /\ OpLayers("Dropout")[1].params.rate = flags.dropout1
    /\ Last(layers).op = "Dense"
    /\ Last(layers).params.units = flags.label_count
    /\ Last(layers).params.activation = NoActivation
    /\ Len(OpLayers("Dense")) = MinOf(ParsedLengths(DenseTexts)) + 1
    /\ Len(OpLayers("Conv2D")) = MinOf(ParsedLengths(ConvTexts))
    /\ Len(OpLayers("GRU")) = MinOf(ParsedLengths(GruTexts))
    /\ Len(layers) = 6 + Len(OpLayers("Conv2D")) + Len(OpLayers("GRU"))
                       + MinOf(ParsedLengths(DenseTexts))

\* C10 witness: a model is returned with no Conv2D, GRU or hidden Dense layer
\* and a dropout rate that is not the default.
C10_Witness == Built /\ Len(layers) = 6 /\ flags.dropout1 # 100

====
